---- MODULE Spec2Model ----
(***************************************************************************)
(* Authentication session manager of dearai-mobile: the axios request and  *)
(* response interceptors with the refresh coordinator (src/lib/api.ts),    *)
(* the storage hooks (src/lib/storage.ts), the token clock (lib/jwt.ts)    *)
(* and the session facade with its proactive refresh timer                 *)
(* (src/context/AuthContext.tsx).                                          *)
(*                                                                         *)
(* JavaScript runs one synchronous segment at a time; every action below   *)
(* is one such segment, from the resumption of an await (or the start of a *)
(* call, a timer firing, a React effect) up to the next await.  Storage    *)
(* operations take effect in the order they are issued: a read returns the *)
(* value the key has when the read is issued, a write is visible to every  *)
(* operation issued after it (exact for localStorage on web, the FIFO      *)
(* order of the native module otherwise).                                  *)
(***************************************************************************)
EXTENDS Integers, Sequences, FiniteSets, TLC

(* ------------------------------ bounds -------------------------------- *)
\* application-level api calls (each slot is used once)
NReq == 2
\* operations the environment starts in one behaviour: api calls of the
\* screens, signIn/signUp, signOut and timer firings together
MaxOps == 2
\* credential pairs the backend issues in one behaviour (login + refresh)
MaxTok == 3
\* clock ticks of TickMs
MaxTicks == 1

(* --------------------------- program constants ------------------------ *)
TOKEN_REFRESH_BUFFER_SECONDS == 60
\* literals of scheduleTokenRefresh: Math.max(timeUntilExpiry - 60000, 10000)
RefreshLeadMs == 60000
MinRefreshDelayMs == 10000
\* default of isTokenExpired's bufferSeconds parameter
DefaultBufferSeconds == 60

\* granularity of the modelled clock (Date.now()), and the lifetimes in
\* seconds of the access tokens the backend issues
TickMs == RefreshLeadMs
Lifetimes == {30, 120}

(* ------------------------------- urls --------------------------------- *)
URL_LOGIN ==
    <<"/", "a", "u", "t", "h", "/", "l", "o", "g", "i", "n">>
URL_REGISTER ==
    <<"/", "a", "u", "t", "h", "/", "r", "e", "g", "i", "s", "t", "e", "r">>
URL_REFRESH ==
    <<"/", "a", "u", "t", "h", "/", "r", "e", "f", "r", "e", "s", "h">>
URL_HEALTH ==
    <<"/", "h", "e", "a", "l", "t", "h">>
URL_LOGOUT ==
    <<"/", "a", "u", "t", "h", "/", "l", "o", "g", "o", "u", "t">>
URL_ME ==
    <<"/", "u", "s", "e", "r", "s", "/", "m", "e">>
\* a protected resource whose path happens to contain "/health"
URL_HEALTHZ ==
    <<"/", "u", "s", "e", "r", "s", "/", "h", "e", "a", "l", "t", "h", "z">>
AUTH_PREFIX ==
    <<"/", "a", "u", "t", "h", "/">>

PUBLIC_ENDPOINTS ==
    {URL_LOGIN, URL_REGISTER, URL_REFRESH, URL_HEALTH}

\* String.prototype.includes
includes(s, sub) ==
    \E i \in 0..(Len(s) - Len(sub)) : SubSeq(s, i + 1, i + Len(sub)) = sub

\* a request interceptor that lets only the /auth/ paths through
isPublicEndpointAuthOnly(url) ==
    includes(url, AUTH_PREFIX)

\* isPublicEndpoint, lines 141-144
isPublicEndpoint(url) ==
    \E endpoint \in PUBLIC_ENDPOINTS : includes(url, endpoint)

\* the test of the response interceptor: originalRequest.url?.includes("/auth/")
isAuthUrl(url) ==
    includes(url, AUTH_PREFIX)

\* urls the application screens call through the exported api instance
AppUrls ==
    {URL_HEALTH, URL_ME, URL_HEALTHZ}

(* ------------------------------ tokens -------------------------------- *)
\* An access token is a JWT: id names the token, exp is the expiry claim of
\* its payload in seconds (0: the payload has no usable exp).  NoTok is null.
NoTok == [id |-> 0, exp |-> 0]
\* refresh tokens and the cached profile are opaque: 0 is null
NoRT == 0
NoUser == 0
TheUser == 1

\* A token given as an arbitrary string has the fields segments (the number
\* of parts token.split(".") yields), payload (what the second part is) and
\* exp; a token written [id, exp] is one the backend issued: three segments
\* and a payload with the numeric claim exp.
\* payload: "undecodable" is not base64, "notjson" decodes to a text that is
\* not JSON, "null" to the JSON value null, "noexp" to an object without exp,
\* "nonnumeric" to an object whose exp is a text that is not a number, "exp"
\* to an object whose exp is the number in the field exp.
PayloadKinds ==
    {"undecodable", "notjson", "null", "noexp", "nonnumeric", "exp"}

\* a JWTPayload: isNull for the value null, hasExp for a payload with the
\* claim, numeric for a claim that is a number; thrown marks an exception in
\* place of a value
NullPayload ==
    [thrown |-> FALSE, isNull |-> TRUE, hasExp |-> FALSE, numeric |-> FALSE,
     exp |-> 0]
ThrownPayload ==
    [thrown |-> TRUE, isNull |-> TRUE, hasExp |-> FALSE, numeric |-> FALSE,
     exp |-> 0]
NoExpPayload ==
    [thrown |-> FALSE, isNull |-> FALSE, hasExp |-> FALSE, numeric |-> FALSE,
     exp |-> 0]
NonNumericPayload ==
    [thrown |-> FALSE, isNull |-> FALSE, hasExp |-> TRUE, numeric |-> FALSE,
     exp |-> 0]
ExpPayload(exp) ==
    [thrown |-> FALSE, isNull |-> FALSE, hasExp |-> TRUE, numeric |-> TRUE,
     exp |-> exp]

\* the try block of decodeJWT, lines 13-27: null has no split, atob throws on
\* a segment that is not base64, JSON.parse on a text that is not JSON
parseJWT(token) ==
    IF token = NoTok THEN ThrownPayload
    ELSE IF "segments" \notin DOMAIN token THEN ExpPayload(token.exp)
    ELSE IF token.segments # 3 THEN NullPayload
    ELSE IF token.payload \in {"undecodable", "notjson"} THEN ThrownPayload
    ELSE IF token.payload = "null" THEN NullPayload
    ELSE IF token.payload = "noexp" THEN NoExpPayload
    ELSE IF token.payload = "nonnumeric" THEN NonNumericPayload
    ELSE ExpPayload(token.exp)

\* decodeJWT: the catch block, lines 28-31, turns an exception into null
decodeJWT(token) ==
    LET parsed == parseJWT(token)
    IN  IF parsed.thrown THEN NullPayload ELSE parsed

\* !decoded || !decoded.exp: null, no claim, or the number 0
noExpiry(decoded) ==
    decoded.isNull \/ ~decoded.hasExp \/ (decoded.numeric /\ decoded.exp = 0)

\* an isTokenExpired that compares with > where the code has >=
isTokenExpiredStrict(token, bufferSeconds, currentTime) ==
    LET decoded == decodeJWT(token)
    IN  IF noExpiry(decoded)
        THEN TRUE
        ELSE IF ~decoded.numeric
        THEN FALSE
        ELSE currentTime > decoded.exp * 1000 - bufferSeconds * 1000

\* isTokenExpired, lines 38-47; a claim that is not a number makes
\* expirationTime NaN, and every comparison with NaN is false
isTokenExpired(token, bufferSeconds, currentTime) ==
    LET decoded == decodeJWT(token)
        expirationTime == decoded.exp * 1000
        bufferTime == bufferSeconds * 1000
    IN  IF noExpiry(decoded)
        THEN TRUE
        ELSE IF ~decoded.numeric
        THEN FALSE
        ELSE currentTime >= expirationTime - bufferTime

\* getTokenExpirationTime, lines 53-62; NaN > 0 is false
getTokenExpirationTime(token, currentTime) ==
    LET decoded == decodeJWT(token)
        timeUntilExpiration == decoded.exp * 1000 - currentTime
    IN  IF noExpiry(decoded)
        THEN 0
        ELSE IF ~decoded.numeric
        THEN 0
        ELSE IF timeUntilExpiration > 0 THEN timeUntilExpiration ELSE 0

Max(a, b) == IF a > b THEN a ELSE b

\* a delay without the floor
refreshInNoFloor(token, currentTime) ==
    getTokenExpirationTime(token, currentTime) - RefreshLeadMs

\* scheduleTokenRefresh's delay
refreshIn(token, currentTime) ==
    Max(getTokenExpirationTime(token, currentTime) - RefreshLeadMs,
        MinRefreshDelayMs)

(* ----------------------------- credentials --------------------------- *)
\* what the user types on the sign-in screens; the backend stores an address
\* as typed or in its normalised (lower case) form
Emails == {"Ann@x.io", "ann@x.io"}
Passwords == {"pw1", "pw2"}
NoEmail == ""
NoCred == [email |-> NoEmail, password |-> ""]

normalised(email) ==
    IF email = "Ann@x.io" THEN "ann@x.io" ELSE email

\* the email field of the UserResponse the backend may send for a registration
RegisteredEmails(email) ==
    {email, normalised(email)}

(* ------------------------------ processes ----------------------------- *)
\* request slots of the api instance: the application's calls, and one slot
\* each for the calls made by signIn/signUp, signOut and the timer callback
AppReq == 1..NReq
SI == NReq + 1
SO == NReq + 2
TM == NReq + 3
Req == 1..(NReq + 3)

Responses == {"ok", "401", "500", "net"}

VARIABLES
    now,            \* Date.now() in ms
    ticks,          \* clock ticks taken
    ops,            \* operations started so far
    store,          \* secure storage: [access, refresh, user]
    mem,            \* React state of the three useStorageState hooks
    loading,        \* their loading flags
    effTok,         \* access token the access-token effect last ran for
    timers,         \* pending setTimeout handles: set of [id, due, at, tok]
    refreshTimerRef,\* refreshTimerRef.current (0: null)
    onAuthFailure,  \* api.ts module variable: "facade" or "noop"
    isRefreshing,   \* api.ts module variable
    failedQueue,    \* api.ts module variable: sequence of waiting requests
    rf,             \* the running refreshAccessToken call
    req,            \* request slots
    si,             \* signIn / signUp call
    so,             \* signOut call
    tc,             \* timer callback
    srv,            \* backend: issued pairs, valid refresh tokens
    hist,           \* history (ghost) variables used by the properties
    jwt             \* a call of the JWT utilities: its input and results

vars ==
    <<now, ticks, ops, store, mem, loading, effTok, timers,
      refreshTimerRef, onAuthFailure, isRefreshing, failedQueue, rf, req, si,
      so, tc, srv, hist, jwt>>

Keys == {"access", "refresh", "user"}

EmptyStore == [access |-> NoTok, refresh |-> NoRT, user |-> NoUser]

\* a request slot: pc is the position of the call in the interceptor chain,
\* url/body/hdr/retry are config.url, the refresh token in the body,
\* config.headers.Authorization and config._retry; tok is the access token the
\* request interceptor read, got the value handleTokenRefresh returned last,
\* old (ghost) the near-expiry access token the request interceptor replaced
\* by a refresh,
\* newTok the newToken of the response interceptor; result and data are what
\* the caller receives; sends and fails count (ghost) how often the request
\* was put on the wire and how often it invoked onAuthFailure; cred is the
\* LoginRequest / RegisterRequest in the body, email the email field of a
\* UserResponse, err (ghost) the error the response interceptor received last,
\* rid (ghost) the number of the refresh the call is waiting for or whose null
\* it is handling (0: none)
IdleReq ==
    [pc |-> "idle", url |-> <<>>, retry |-> FALSE, hdr |-> NoTok,
     tok |-> NoTok, old |-> NoTok, got |-> NoTok, newTok |-> NoTok,
     body |-> NoRT, cred |-> NoCred,
     result |-> "none", data |-> [a |-> NoTok, r |-> NoRT],
     email |-> NoEmail, err |-> "none", rid |-> 0,
     sends |-> 0, fails |-> 0]

NoPair == [a |-> NoTok, r |-> NoRT]

IdleRf == [pc |-> "idle", tok |-> NoRT, owner |-> 0, data |-> NoPair]

\* the running signIn / signUp: data is the argument of signUp while it is
\* in use (the arguments of signIn are in the body of the login request), a
\* the access_token of the login response, res and me the outcomes of the
\* call and of GET /users/me; thrown (ghost) is the url of the request whose
\* error the call has thrown
IdleSi ==
    [pc |-> "idle", data |-> NoCred, a |-> NoTok,
     res |-> "none", me |-> "none", thrown |-> <<>>]

isLoading ==
    loading["access"] \/ loading["refresh"] \/ loading["user"]

\* A call has ended and the continuation of its caller has not run yet: a
\* response delivered to the facade or to the timer callback, a result
\* delivered to a screen, signIn/signUp/signOut returning to its caller.  The
\* continuation runs in the same turn of the event loop, before any other
\* event is handled.
ContinuationPending ==
    \/ \E r \in AppReq : req[r].pc = "done"
    \/ si.pc \in {"register", "login", "me"} /\ req[SI].pc = "done"
    \/ si.pc = "returned"
    \/ so.pc = "logout" /\ req[SO].pc = "done"
    \/ so.pc = "returned"
    \/ tc.pc = "post" /\ req[TM].pc = "done"

\* the event loop takes the next event
Quiet == ~ContinuationPending

\* AuthProvider is mounted: the cleanup of its effects, which replaces the
\* registered callback by a no-op, has not run
mounted == onAuthFailure = "facade"

\* React flushes the pending passive effects before it dispatches a press:
\* the access-token effect has run for the current accessToken
EffectsFlushed == mem.access = effTok

\* a session persisted by an earlier run of the application
PersistedSession(life) ==
    [access |-> [id |-> 1, exp |-> life], refresh |-> 1, user |-> TheUser]


\* no call of the JWT utilities is being followed
NoJwt ==
    [pc |-> "none", token |-> NoTok, bufferSeconds |-> 0,
     expired |-> FALSE, remaining |-> 0, raised |-> FALSE]

(* ------------------------------- Init --------------------------------- *)
\* The state after AuthProvider has mounted and its mount effects have run:
\* the three storage reads are issued (loading), the auth-failure callback is
\* registered, the access-token effect has run for accessToken = null.
\* rotated: refresh tokens a successful refresh has exchanged; staleSend: a
\* POST /auth/refresh was sent carrying a token that was rotated by then;
\* rfPosts: POSTs made for the running handleTokenRefresh; signedOut: signOut
\* has returned and no signIn/signUp was called since; cleared: signOut or
\* the session-invalidated callback has set the access token to null and no
\* signIn/signUp was called since; timerTok: id of the access token the timer
\* callback installed since the last firing (0: none); lastFire: Date.now()
\* at the last firing of the timer (-1: none); loaded: the keys whose initial
\* storage read has delivered its value; invalidated: the refreshes some call
\* is still handling for whose null onAuthFailure has been invoked already
InitHist ==
    [rotated   |-> {},
     staleSend |-> FALSE,
     rfPosts   |-> 0,
     signedOut |-> FALSE,
     cleared   |-> FALSE,
     timerTok  |-> 0,
     lastFire  |-> -1,
     loaded    |-> {},
     invalidated |-> {}]

Init ==
    /\ now = 0
    /\ ticks = 0
    /\ ops = 0
    /\ \E persisted \in BOOLEAN, life \in Lifetimes :
          /\ store = IF persisted THEN PersistedSession(life) ELSE EmptyStore
          /\ srv = IF persisted
                   THEN [nextId |-> 1, valid |-> {1}]
                   ELSE [nextId |-> 0, valid |-> {}]
    /\ mem = EmptyStore
    /\ loading = [k \in Keys |-> TRUE]
    /\ effTok = NoTok
    /\ timers = {}
    /\ refreshTimerRef = 0
    /\ onAuthFailure = "facade"
    /\ isRefreshing = FALSE
    /\ failedQueue = <<>>
    /\ rf = IdleRf
    /\ req = [r \in Req |-> IdleReq]
    /\ si = IdleSi
    /\ so = [pc |-> "idle", rt |-> NoRT, logout |-> "none"]
    /\ tc = [pc |-> "idle", rt |-> NoRT]
    /\ hist = InitHist
    /\ jwt = NoJwt

(* ------------------------------ backend ------------------------------- *)
\* the pair the backend issues next, for an access token of the given
\* lifetime in seconds
NewPair(life) ==
    [a |-> [id |-> srv.nextId + 1, exp |-> (now \div 1000) + life],
     r |-> srv.nextId + 1]

\* can the backend answer 2xx to this request?
SrvCanOk(url, body) ==
    IF url = URL_LOGIN THEN srv.nextId < MaxTok
    ELSE IF url = URL_REFRESH
         THEN body \in srv.valid /\ srv.nextId < MaxTok
         ELSE TRUE

\* the response body and the backend's state after a 2xx
SrvData(url, life) ==
    IF url \in {URL_LOGIN, URL_REFRESH} THEN NewPair(life) ELSE NoPair

SrvAfterOk(url, body) ==
    IF url = URL_LOGIN
    THEN [nextId |-> srv.nextId + 1, valid |-> srv.valid \cup {srv.nextId + 1}]
    ELSE IF url = URL_REFRESH
    THEN [nextId |-> srv.nextId + 1,
          valid  |-> (srv.valid \ {body}) \cup {srv.nextId + 1}]
    ELSE IF url = URL_LOGOUT
    THEN [srv EXCEPT !.valid = @ \ {body}]
    ELSE srv

(* ------------------------- timer and React state ---------------------- *)
\* clearRefreshTimer, and the first lines of scheduleTokenRefresh:
\* clearTimeout(refreshTimerRef.current)
ClearedTimers(ts, ref) ==
    IF ref # 0 THEN {t \in ts : t.id # ref} ELSE ts

FreshTimerId(ts) ==
    CHOOSE i \in 1..(Cardinality(ts) + 1) :
        /\ \A t \in ts : t.id # i
        /\ \A j \in 1..(i - 1) : \E t \in ts : t.id = j

\* a scheduleTokenRefresh that leaves the pending timer in place
scheduleBaseKeeps(ts, ref) ==
    ts

\* the pending timers before scheduleTokenRefresh arms the new one
scheduleBase(ts, ref) ==
    ClearedTimers(ts, ref)

\* scheduleTokenRefresh(token): the pending timers and the ref afterwards;
\* at and tok (ghost) record when and for which token the timer was armed
ScheduledTimers(ts, ref, token) ==
    LET base == scheduleBase(ts, ref)
    IN  base \cup {[id  |-> FreshTimerId(base),
                    due |-> now + refreshIn(token, now),
                    at  |-> now,
                    tok |-> token]}

ScheduledRef(ts, ref) ==
    FreshTimerId(scheduleBase(ts, ref))

(* ------------------------------ requests ------------------------------ *)
\* api(config) followed by the request interceptor up to its first
\* suspension; access is the stored access token when the read is issued
Launch(rec, url, body, access) ==
    IF isPublicEndpoint(url)
    THEN [rec EXCEPT !.url = url, !.body = body, !.pc = "sent",
                     !.sends = @ + 1]
    ELSE [rec EXCEPT !.url = url, !.body = body, !.pc = "ri_read",
                     !.tok = access]

\* the request has ended with result res: what the caller is left with
Done(rec, res, data) ==
    [IdleReq EXCEPT !.pc = "done", !.url = rec.url, !.retry = rec.retry,
                    !.result = res, !.data = data, !.sends = rec.sends,
                    !.fails = rec.fails]

\* ghost: a refresh token put on the wire after it was rotated
HistSent(h, rec) ==
    IF rec.pc = "sent" /\ rec.url = URL_REFRESH /\ rec.body \in h.rotated
    THEN [h EXCEPT !.staleSend = TRUE]
    ELSE h

(* ------------------------- refresh coordinator ------------------------ *)
\* handleTokenRefresh, line 118: does this call run the refresh itself?
startsRefresh ==
    ~isRefreshing

\* ghost: the number of the refresh a call of handleTokenRefresh made now
\* waits for: the one its owner waits for or, for the refresh it starts, the
\* least number no call is holding
awaitedRefresh ==
    IF startsRefresh
    THEN CHOOSE n \in 1..(Cardinality(Req) + 1) :
            /\ n \notin {req[q].rid : q \in Req} \cup hist.invalidated
            /\ \A m \in 1..(n - 1) :
                  m \in {req[q].rid : q \in Req} \cup hist.invalidated
    ELSE req[rf.owner].rid

\* handleTokenRefresh() up to its first suspension, called for request r:
\* either it sets the flag and enters refreshAccessToken, which issues the
\* read of the refresh token, or it queues the caller.
CoordCall(r) ==
    IF startsRefresh
    THEN /\ isRefreshing' = TRUE
         /\ rf' = [pc |-> "read", tok |-> store.refresh, owner |-> r,
                   data |-> NoPair]
         /\ failedQueue' = failedQueue
    ELSE /\ failedQueue' = Append(failedQueue, r)
         /\ UNCHANGED <<isRefreshing, rf>>

\* a processQueue that resolves the waiters without the token
processQueueDropsToken(queue, token) ==
    [i \in 1..Len(queue) |-> NoTok]

\* processQueue(null, token): the value each queued waiter is resolved with
processQueue(queue, token) ==
    [i \in 1..Len(queue) |-> token]

\* a request interceptor that falls back to the token it had read
RIResumeKeepsOld(rec, token) ==
    [rec EXCEPT !.pc = "sent", !.got = token, !.sends = @ + 1, !.rid = 0,
                !.hdr = IF token # NoTok THEN token ELSE rec.old]

\* request interceptor, lines 172-179: the interceptor resumes with the
\* result of handleTokenRefresh and the request is sent
RIResume(rec, token) ==
    [rec EXCEPT !.pc = "sent", !.got = token, !.sends = @ + 1, !.rid = 0,
                !.hdr = IF token # NoTok THEN token ELSE @]

\* response interceptor, lines 202-213: it resumes with the result of
\* handleTokenRefresh; with a token the request is issued again through
\* api(originalRequest), without one clearAuthStorage() is called
RSResume(rec, token, access) ==
    IF token # NoTok
    THEN Launch([rec EXCEPT !.got = token, !.newTok = token, !.hdr = token,
                            !.old = NoTok, !.err = "none", !.rid = 0],
                rec.url, rec.body, access)
    ELSE [rec EXCEPT !.got = token, !.pc = "rs_clear"]

\* a response interceptor that goes on to the callback without
\* clearAuthStorage()
neverClearsStorage(rec, token) ==
    FALSE

\* response interceptor, lines 204-213: does the continuation of rec reach
\* clearAuthStorage()?
clearsStorage(rec, token) ==
    rec.pc = "rs_wait" /\ token = NoTok

Resume(rec, token, access) ==
    IF rec.pc = "ri_wait" THEN RIResume(rec, token)
    ELSE IF rec.pc = "rs_wait" THEN RSResume(rec, token, access)
    ELSE rec

\* a handleTokenRefresh without its finally block
flagAfterRefreshKept(flag) ==
    flag

\* handleTokenRefresh, finally, lines 127-129: isRefreshing = false
flagAfterRefresh(flag) ==
    FALSE

\* The tail of handleTokenRefresh once refreshAccessToken has returned token
\* (processQueue(null, token); return token; finally isRefreshing = false)
\* and, in the same run of the microtask queue, the continuations of the
\* interceptors that awaited it.
CoordFinish(token) ==
    LET resolved == processQueue(failedQueue, token)
        queued == {failedQueue[i] : i \in 1..Len(failedQueue)}
        waiterVal(r) ==
            resolved[CHOOSE j \in 1..Len(failedQueue) : failedQueue[j] = r]
        val(r) == IF r = rf.owner THEN token ELSE waiterVal(r)
        callers == queued \cup {rf.owner}
    IN  /\ req' = [r \in Req |->
                     IF r \in callers
                     THEN Resume(req[r], val(r), store.access)
                     ELSE req[r]]
        /\ store' = IF \E r \in callers : clearsStorage(req[r], val(r))
                    THEN EmptyStore
                    ELSE store
        /\ failedQueue' = <<>>
        /\ isRefreshing' = flagAfterRefresh(isRefreshing)
        /\ rf' = IdleRf

\* a refreshAccessToken that answers a failure with the stored access token
refreshFailureStale ==
    store.access

\* refreshAccessToken, lines 89-92 and 108-111: return null
refreshFailure ==
    NoTok

\* refreshAccessToken resumes with the refresh token it read: lines 87-97
RefreshAfterRead ==
    /\ Quiet
    /\ rf.pc = "read"
    /\ IF rf.tok = NoRT
       THEN /\ CoordFinish(refreshFailure)
            /\ hist' = [hist EXCEPT !.rfPosts = 0]
       ELSE /\ rf' = [rf EXCEPT !.pc = "inflight"]
            /\ hist' = [hist EXCEPT
                          !.rfPosts = @ + 1,
                          !.staleSend = @ \/ rf.tok \in hist.rotated]
            /\ UNCHANGED <<req, store, failedQueue, isRefreshing>>
    /\ UNCHANGED jwt
    /\ UNCHANGED <<now, ticks, ops, mem, loading, effTok, timers,
                   refreshTimerRef, onAuthFailure, si, so, tc, srv>>

\* POST /auth/refresh fails (transport error or rejection): catch, return null
RefreshFails ==
    /\ Quiet
    /\ rf.pc = "inflight"
    /\ CoordFinish(refreshFailure)
    /\ hist' = [hist EXCEPT !.rfPosts = 0]
    /\ UNCHANGED jwt
    /\ UNCHANGED <<now, ticks, ops, mem, loading, effTok, timers,
                   refreshTimerRef, onAuthFailure, si, so, tc, srv>>

\* a refreshAccessToken that stores the access token only
rotatedStoreAccessOnly(st, pair) ==
    [st EXCEPT !.access = pair.a]

\* refreshAccessToken, lines 102-105: the storage once both writes are done
rotatedStore(st, pair) ==
    [st EXCEPT !.access = pair.a, !.refresh = pair.r]

\* POST /auth/refresh succeeds: both setStorageItemAsync writes are issued
RefreshSucceeds ==
    /\ Quiet
    /\ rf.pc = "inflight"
    /\ SrvCanOk(URL_REFRESH, rf.tok)
    /\ \E life \in Lifetimes :
          LET pair == NewPair(life)
          IN  /\ store' = rotatedStore(store, pair)
              /\ rf' = [rf EXCEPT !.pc = "write", !.data = pair]
    /\ srv' = SrvAfterOk(URL_REFRESH, rf.tok)
    /\ hist' = [hist EXCEPT !.rotated = @ \cup {rf.tok}]
    /\ UNCHANGED jwt
    /\ UNCHANGED <<now, ticks, ops, mem, loading, effTok, timers, refreshTimerRef,
                   onAuthFailure, isRefreshing, failedQueue, req, si, so, tc>>

\* the writes are done: return access_token
RefreshAfterWrite ==
    /\ Quiet
    /\ rf.pc = "write"
    /\ CoordFinish(rf.data.a)
    /\ hist' = [hist EXCEPT !.rfPosts = 0]
    /\ UNCHANGED jwt
    /\ UNCHANGED <<now, ticks, ops, mem, loading, effTok, timers,
                   refreshTimerRef, onAuthFailure, si, so, tc, srv>>

(* ---------------------------- interceptors ---------------------------- *)
\* a screen calls the api (the slots are taken in order)
AppStart(r, url) ==
    /\ Quiet
    /\ r \in AppReq
    /\ req[r].pc = "idle"
    /\ \A q \in AppReq : q < r => req[q].pc # "idle"
    /\ ops < MaxOps
    /\ mounted
    /\ ~isLoading
    /\ req' = [req EXCEPT ![r] = Launch(@, url, NoRT, store.access)]
    /\ ops' = ops + 1
    /\ UNCHANGED jwt
    /\ UNCHANGED <<now, ticks, store, mem, loading, effTok, timers,
                   refreshTimerRef, onAuthFailure, isRefreshing, failedQueue,
                   rf, si, so, tc, srv, hist>>

\* the screen that made the call receives its result
AppReturn(r) ==
    /\ r \in AppReq
    /\ req[r].pc = "done"
    /\ req' = [req EXCEPT ![r] = IdleReq]
    /\ UNCHANGED jwt
    /\ UNCHANGED <<now, ticks, ops, store, mem, loading, effTok, timers,
                   refreshTimerRef, onAuthFailure, isRefreshing, failedQueue,
                   rf, si, so, tc, srv, hist>>

\* request interceptor, line 167: must the token be refreshed first?
needsRefresh(accessToken) ==
    /\ accessToken # NoTok
    /\ isTokenExpired(accessToken, TOKEN_REFRESH_BUFFER_SECONDS, now)

\* request interceptor, lines 166-179, with the access token it read
RIAfterRead(r) ==
    /\ Quiet
    /\ req[r].pc = "ri_read"
    /\ LET accessToken == req[r].tok
       IN  IF needsRefresh(accessToken)
           THEN /\ CoordCall(r)
                /\ req' = [req EXCEPT ![r].pc = "ri_wait", ![r].tok = NoTok,
                                       ![r].old = accessToken,
                                       ![r].rid = awaitedRefresh]
                /\ hist' = IF ~isRefreshing
                           THEN [hist EXCEPT !.rfPosts = 0]
                           ELSE hist
           ELSE /\ req' = [req EXCEPT
                             ![r].pc = "sent",
                             ![r].tok = NoTok,
                             ![r].sends = @ + 1,
                             ![r].hdr = IF accessToken # NoTok
                                        THEN accessToken ELSE @]
                /\ UNCHANGED <<isRefreshing, failedQueue, rf, hist>>
    /\ UNCHANGED jwt
    /\ UNCHANGED <<now, ticks, ops, store, mem, loading, effTok, timers,
                   refreshTimerRef, onAuthFailure, si, so, tc, srv>>

\* the backend answers 2xx: the response interceptor passes it through
RespondOk(r) ==
    /\ Quiet
    /\ req[r].pc = "sent"
    /\ SrvCanOk(req[r].url, req[r].body)
    /\ \E life \in (IF req[r].url \in {URL_LOGIN, URL_REFRESH}
                    THEN Lifetimes ELSE {0}),
          email \in (IF req[r].url = URL_REGISTER
                     THEN RegisteredEmails(req[r].cred.email)
                     ELSE {NoEmail}) :
          req' = [req EXCEPT
                    ![r] = [Done(@, "ok", SrvData(req[r].url, life))
                               EXCEPT !.email = email]]
    /\ srv' = SrvAfterOk(req[r].url, req[r].body)
    /\ hist' = IF req[r].url = URL_REFRESH
               THEN [hist EXCEPT !.rotated = @ \cup {req[r].body}]
               ELSE hist
    /\ UNCHANGED jwt
    /\ UNCHANGED <<now, ticks, ops, store, mem, loading, effTok, timers,
                   refreshTimerRef, onAuthFailure, isRefreshing, failedQueue,
                   rf, si, so, tc>>

\* a response interceptor without the test of line 195
skipsRetryNever(url) ==
    FALSE

\* response interceptor, line 195: "skip retry for auth endpoints"
skipsRetry(url) ==
    isAuthUrl(url)

\* a response interceptor that takes every error for an authorization failure
handlesEveryError(rec, err) ==
    ~rec.retry

\* response interceptor, line 193
handles401(rec, err) ==
    err = "401" /\ ~rec.retry

\* the call fails with err: response interceptor, lines 187-203 and 217
RespondError(r, err) ==
    /\ Quiet
    /\ req[r].pc = "sent"
    /\ err \in Responses \ {"ok"}
    /\ IF handles401(req[r], err) /\ ~skipsRetry(req[r].url)
       THEN /\ CoordCall(r)
            /\ req' = [req EXCEPT ![r].retry = TRUE, ![r].pc = "rs_wait",
                                   ![r].err = err,
                                   ![r].rid = awaitedRefresh]
            /\ hist' = IF ~isRefreshing
                       THEN [hist EXCEPT !.rfPosts = 0]
                       ELSE hist
       ELSE /\ req' = [req EXCEPT
                         ![r] = [Done(@, err, NoPair) EXCEPT !.err = err]]
            /\ UNCHANGED <<isRefreshing, failedQueue, rf, hist>>
    /\ UNCHANGED jwt
    /\ UNCHANGED <<now, ticks, ops, store, mem, loading, effTok, timers,
                   refreshTimerRef, onAuthFailure, si, so, tc, srv>>

\* a reducer that reports loading while the value is null
reducerLoadingOnNull(isNull) ==
    isNull

\* useAsyncState's reducer, storage.ts 12-16: the loading flag after a value
\* was dispatched (isNull: the value is null)
reducerLoading(isNull) ==
    FALSE

\* setters that leave the profile in memory
ClearedByFacadeKeepsUser ==
    /\ mem' = [EmptyStore EXCEPT !.user = mem.user]
    /\ loading' = [k \in Keys |-> reducerLoading(TRUE)]
    /\ store' = EmptyStore

\* the session-invalidated callback registered by AuthProvider, and the same
\* three setters at the end of signOut: state and storage become null
ClearedByFacade ==
    /\ mem' = EmptyStore
    /\ loading' = [k \in Keys |-> reducerLoading(TRUE)]
    /\ store' = EmptyStore

\* ghost: the refreshes still being handled for which onAuthFailure was
\* invoked, once request r has invoked it
invalidatedAfter(r) ==
    IF \E q \in Req \ {r} : req[q].rid = req[r].rid
    THEN hist.invalidated \cup {req[r].rid}
    ELSE hist.invalidated \ {req[r].rid}

\* response interceptor, lines 214 and 217, once clearAuthStorage is done
RSAfterClear(r) ==
    /\ Quiet
    /\ req[r].pc = "rs_clear"
    /\ req' = [req EXCEPT
                 ![r] = Done([@ EXCEPT !.fails = @ + 1], "401", NoPair)]
    /\ IF onAuthFailure = "facade"
       THEN /\ ClearedByFacade
            /\ timers' = ClearedTimers(timers, refreshTimerRef)
            /\ refreshTimerRef' = 0
            /\ hist' = [hist EXCEPT !.cleared = TRUE,
                                     !.invalidated = invalidatedAfter(r)]
       ELSE /\ hist' = [hist EXCEPT !.invalidated = invalidatedAfter(r)]
            /\ UNCHANGED <<mem, loading, store, timers, refreshTimerRef>>
    /\ UNCHANGED jwt
    /\ UNCHANGED <<now, ticks, ops, effTok, onAuthFailure, isRefreshing,
                   failedQueue, rf, si, so, tc, srv>>

(* --------------------------- storage hooks ---------------------------- *)
\* useStorageState's load effect delivers the stored value of key k
Load(k) ==
    /\ Quiet
    /\ mounted
    /\ loading[k]
    /\ mem' = [mem EXCEPT ![k] = store[k]]
    /\ loading' = [loading EXCEPT
                     ![k] = reducerLoading(store[k] = EmptyStore[k])]
    /\ hist' = [hist EXCEPT !.loaded = @ \cup {k}]
    /\ UNCHANGED jwt
    /\ UNCHANGED <<now, ticks, ops, store, effTok, timers, refreshTimerRef,
                   onAuthFailure, isRefreshing, failedQueue, rf, req, si, so,
                   tc, srv>>

\* Date.now() advances.  The initial storage reads deliver before the clock
\* moves on: a read takes milliseconds, the earliest timer 10 s.
Tick ==
    /\ Quiet
    /\ ticks < MaxTicks
    /\ ~isLoading
    /\ ticks' = ticks + 1
    /\ now' = now + TickMs
    /\ UNCHANGED jwt
    /\ UNCHANGED <<ops, store, mem, loading, effTok, timers, refreshTimerRef,
                   onAuthFailure, isRefreshing, failedQueue, rf, req, si, so,
                   tc, srv, hist>>

(* ---------------------- proactive refresh scheduler ------------------- *)
\* the access-token effect of AuthProvider re-runs because accessToken
\* changed: cleanup of the previous run, then the effect body
effectArms(accessToken) ==
    accessToken # NoTok /\ ~isTokenExpired(accessToken, DefaultBufferSeconds, now)

RunEffect ==
    /\ Quiet
    /\ mounted
    /\ mem.access # effTok
    /\ effTok' = mem.access
    /\ LET cleared == ClearedTimers(timers, refreshTimerRef)
       IN  IF effectArms(mem.access)
           THEN /\ timers' = ScheduledTimers(cleared, 0, mem.access)
                /\ refreshTimerRef' = ScheduledRef(cleared, 0)
           ELSE /\ timers' = cleared
                /\ refreshTimerRef' = 0
    /\ UNCHANGED jwt
    /\ UNCHANGED <<now, ticks, ops, store, mem, loading, onAuthFailure,
                   isRefreshing, failedQueue, rf, req, si, so, tc, srv, hist>>

\* the timer fires: the callback runs up to the read of the refresh token.
\* One callback runs at a time: a callback ends before the next timer fires.
TimerFire(t) ==
    /\ Quiet
    /\ t \in timers
    /\ now >= t.due
    /\ ops < MaxOps
    /\ tc.pc = "idle"
    /\ timers' = timers \ {t}
    /\ tc' = [pc |-> "read", rt |-> store.refresh]
    /\ ops' = ops + 1
    /\ hist' = [hist EXCEPT !.lastFire = now, !.timerTok = 0]
    /\ UNCHANGED jwt
    /\ UNCHANGED <<now, ticks, store, mem, loading, effTok, refreshTimerRef,
                   onAuthFailure, isRefreshing, failedQueue, rf, req, si, so,
                   srv>>

\* a timer callback that goes on without a refresh token
hasRefreshTokenAlways(currentRefreshToken) ==
    TRUE

\* timer callback, line 99: if (!currentRefreshToken) return
hasRefreshToken(currentRefreshToken) ==
    currentRefreshToken # NoRT

\* timer callback, lines 99-108, with the refresh token it read: without
\* one it returns, with one it posts it through the api instance
TCAfterRead ==
    /\ Quiet
    /\ tc.pc = "read"
    /\ IF ~hasRefreshToken(tc.rt)
       THEN /\ tc' = [pc |-> "idle", rt |-> NoRT]
            /\ UNCHANGED <<req, hist>>
       ELSE /\ tc' = [tc EXCEPT !.pc = "post"]
            /\ req' = [req EXCEPT
                         ![TM] = Launch(IdleReq, URL_REFRESH, tc.rt,
                                        store.access)]
            /\ hist' = HistSent(hist, req'[TM])
    /\ UNCHANGED jwt
    /\ UNCHANGED <<now, ticks, ops, store, mem, loading, effTok, timers,
                   refreshTimerRef, onAuthFailure, isRefreshing, failedQueue,
                   rf, si, so, srv>>

\* timer callback, lines 110-124, with the outcome of the post
TCAfterPost ==
    /\ tc.pc = "post"
    /\ req[TM].pc = "done"
    /\ tc' = [pc |-> "idle", rt |-> NoRT]
    /\ IF req[TM].result = "ok"
       THEN LET d == req[TM].data
            IN  /\ mem' = [mem EXCEPT !.access = d.a, !.refresh = d.r]
                /\ loading' = [loading EXCEPT
                                 !["access"] = reducerLoading(FALSE),
                                 !["refresh"] = reducerLoading(FALSE)]
                /\ store' = [store EXCEPT !.access = d.a, !.refresh = d.r]
                /\ timers' = ScheduledTimers(timers, refreshTimerRef, d.a)
                /\ refreshTimerRef' = ScheduledRef(timers, refreshTimerRef)
                /\ hist' = [hist EXCEPT !.timerTok = d.a.id]
       ELSE UNCHANGED <<mem, loading, store, timers, refreshTimerRef, hist>>
    /\ req' = [req EXCEPT ![TM] = IdleReq]
    /\ UNCHANGED jwt
    /\ UNCHANGED <<now, ticks, ops, effTok, onAuthFailure, isRefreshing,
                   failedQueue, rf, si, so, srv>>

\* AuthProvider unmounts: the cleanups of its effects run (lines 209-211,
\* 220-222, 227-229)
Unmount ==
    /\ Quiet
    /\ mounted
    /\ ops < MaxOps
    /\ ops' = ops + 1
    /\ onAuthFailure' = "noop"
    /\ timers' = ClearedTimers(timers, refreshTimerRef)
    /\ refreshTimerRef' = 0
    /\ UNCHANGED jwt
    /\ UNCHANGED <<now, ticks, store, mem, loading, effTok, isRefreshing,
                   failedQueue, rf, req, si, so, tc, srv, hist>>

(* ---------------------------- session facade -------------------------- *)
\* signIn (signUp = FALSE) or signUp (TRUE) is called from the sign-in
\* screens, which are shown while there is no session
SignInStart(signUp, email, password) ==
    /\ Quiet
    /\ si.pc = "idle"
    /\ ops < MaxOps
    /\ mounted
    /\ ~isLoading
    /\ EffectsFlushed
    /\ mem.access = NoTok
    /\ LET args == [email |-> email, password |-> password]
       IN  /\ si' = IF signUp
                    THEN [si EXCEPT !.pc = "register", !.data = args]
                    ELSE [si EXCEPT !.pc = "login"]
           /\ req' = [req EXCEPT
                        ![SI] = [Launch(IdleReq,
                                        IF signUp THEN URL_REGISTER
                                                  ELSE URL_LOGIN,
                                        NoRT, store.access)
                                    EXCEPT !.cred = args]]
    /\ hist' = [hist EXCEPT !.signedOut = FALSE, !.cleared = FALSE]
    /\ ops' = ops + 1
    /\ UNCHANGED jwt
    /\ UNCHANGED <<now, ticks, store, mem, loading, effTok, timers,
                   refreshTimerRef, onAuthFailure, isRefreshing, failedQueue,
                   rf, so, tc, srv>>

\* signUp, line 168: the arguments of its call of signIn
signInArgs(user, data) ==
    [email |-> user.email, password |-> data.password]

\* signUp, line 168, with the outcome of the registration
SignUpAfterRegister ==
    /\ si.pc = "register"
    /\ req[SI].pc = "done"
    /\ IF req[SI].result = "ok"
       THEN LET args == signInArgs([email |-> req[SI].email], si.data)
            IN  /\ si' = [si EXCEPT !.pc = "login", !.data = NoCred]
                /\ req' = [req EXCEPT
                             ![SI] = [Launch(IdleReq, URL_LOGIN, NoRT,
                                             store.access)
                                         EXCEPT !.cred = args]]
                /\ hist' = HistSent(hist, req'[SI])
       ELSE /\ si' = [si EXCEPT !.pc = "returned", !.res = "error",
                                 !.data = NoCred,
                                 !.thrown = URL_REGISTER]
            /\ req' = [req EXCEPT ![SI] = IdleReq]
            /\ hist' = hist
    /\ UNCHANGED jwt
    /\ UNCHANGED <<now, ticks, ops, store, mem, loading, effTok, timers,
                   refreshTimerRef, onAuthFailure, isRefreshing, failedQueue,
                   rf, so, tc, srv>>

\* a storage whose read overtakes the write issued before it
accessReadOvertakes(stored, written) ==
    stored

\* The write setAccessToken(written) starts is not awaited; the read of the
\* request interceptor is issued after it and returns what it wrote.
accessRead(stored, written) ==
    written

\* signIn, lines 144-152, with the outcome of the login
SignInAfterLogin ==
    /\ si.pc = "login"
    /\ req[SI].pc = "done"
    /\ IF req[SI].result = "ok"
       THEN LET d == req[SI].data
            IN  /\ mem' = [mem EXCEPT !.access = d.a, !.refresh = d.r]
                /\ loading' = [loading EXCEPT
                                 !["access"] = reducerLoading(FALSE),
                                 !["refresh"] = reducerLoading(FALSE)]
                /\ store' = [store EXCEPT !.access = d.a, !.refresh = d.r]
                /\ si' = [si EXCEPT !.pc = "me", !.a = d.a]
                /\ req' = [req EXCEPT
                             ![SI] = Launch(IdleReq, URL_ME, NoRT,
                                            accessRead(store.access, d.a))]
                /\ hist' = HistSent(hist, req'[SI])
       ELSE /\ si' = [si EXCEPT !.pc = "returned", !.res = "error",
                                 !.thrown = URL_LOGIN]
            /\ req' = [req EXCEPT ![SI] = IdleReq]
            /\ UNCHANGED <<mem, loading, store, hist>>
    /\ UNCHANGED jwt
    /\ UNCHANGED <<now, ticks, ops, effTok, timers, refreshTimerRef, onAuthFailure,
                   isRefreshing, failedQueue, rf, so, tc, srv>>

\* signIn, lines 153-160, with the outcome of GET /users/me
SignInAfterMe ==
    /\ si.pc = "me"
    /\ req[SI].pc = "done"
    /\ si' = [si EXCEPT !.pc = "returned", !.res = "ok",
                        !.me = req[SI].result]
    /\ req' = [req EXCEPT ![SI] = IdleReq]
    /\ IF req[SI].result = "ok"
       THEN /\ mem' = [mem EXCEPT !.user = TheUser]
            /\ loading' = [loading EXCEPT !["user"] = reducerLoading(FALSE)]
            /\ store' = [store EXCEPT !.user = TheUser]
       ELSE UNCHANGED <<mem, loading, store>>
    /\ timers' = ScheduledTimers(timers, refreshTimerRef, si.a)
    /\ refreshTimerRef' = ScheduledRef(timers, refreshTimerRef)
    /\ UNCHANGED jwt
    /\ UNCHANGED <<now, ticks, ops, effTok, onAuthFailure, isRefreshing,
                   failedQueue, rf, so, tc, srv, hist>>

\* signIn / signUp has returned (res = "ok") or thrown (res = "error")
SignInReturn ==
    /\ si.pc = "returned"
    /\ si' = IdleSi
    /\ UNCHANGED jwt
    /\ UNCHANGED <<now, ticks, ops, store, mem, loading, effTok, timers,
                   refreshTimerRef, onAuthFailure, isRefreshing, failedQueue,
                   rf, req, so, tc, srv, hist>>

\* signOut is called from the application screens, shown while there is a
\* session: lines 176-182
SignOutStart ==
    /\ Quiet
    /\ so.pc = "idle"
    /\ ops < MaxOps
    /\ mounted
    /\ ~isLoading
    /\ EffectsFlushed
    /\ mem.access # NoTok
    /\ timers' = ClearedTimers(timers, refreshTimerRef)
    /\ refreshTimerRef' = 0
    /\ so' = [so EXCEPT !.pc = "read", !.rt = store.refresh]
    /\ ops' = ops + 1
    /\ UNCHANGED jwt
    /\ UNCHANGED <<now, ticks, store, mem, loading, effTok, onAuthFailure,
                   isRefreshing, failedQueue, rf, req, si, tc, srv, hist>>

\* signOut, lines 183-185 (and 192 when there is no refresh token)
SignOutAfterRead ==
    /\ Quiet
    /\ so.pc = "read"
    /\ IF so.rt # NoRT
       THEN /\ so' = [so EXCEPT !.pc = "logout"]
            /\ req' = [req EXCEPT
                         ![SO] = Launch(IdleReq, URL_LOGOUT, so.rt,
                                        store.access)]
            /\ hist' = HistSent(hist, req'[SO])
            /\ store' = store
       ELSE /\ so' = [so EXCEPT !.pc = "clear", !.logout = "skipped",
                                 !.rt = NoRT]
            /\ store' = EmptyStore
            /\ UNCHANGED <<req, hist>>
    /\ UNCHANGED jwt
    /\ UNCHANGED <<now, ticks, ops, mem, loading, effTok, timers, refreshTimerRef,
                   onAuthFailure, isRefreshing, failedQueue, rf, si, tc, srv>>

\* signOut, lines 186-192: the logout call has ended, its error is absorbed
SignOutAfterLogout ==
    /\ so.pc = "logout"
    /\ req[SO].pc = "done"
    /\ so' = [so EXCEPT !.pc = "clear", !.logout = req[SO].result,
                        !.rt = NoRT]
    /\ store' = EmptyStore
    /\ req' = [req EXCEPT ![SO] = IdleReq]
    /\ UNCHANGED jwt
    /\ UNCHANGED <<now, ticks, ops, mem, loading, effTok, timers, refreshTimerRef,
                   onAuthFailure, isRefreshing, failedQueue, rf, si, tc,
                   srv, hist>>

\* signOut, lines 195-197, once clearAuthStorage is done
SignOutAfterClear ==
    /\ Quiet
    /\ so.pc = "clear"
    /\ so' = [so EXCEPT !.pc = "returned"]
    /\ ClearedByFacade
    /\ hist' = [hist EXCEPT !.signedOut = TRUE, !.cleared = TRUE]
    /\ UNCHANGED jwt
    /\ UNCHANGED <<now, ticks, ops, effTok, timers, refreshTimerRef, onAuthFailure,
                   isRefreshing, failedQueue, rf, req, si, tc, srv>>

\* signOut has returned to its caller
SignOutReturn ==
    /\ so.pc = "returned"
    /\ so' = [so EXCEPT !.pc = "idle", !.logout = "none"]
    /\ UNCHANGED jwt
    /\ UNCHANGED <<now, ticks, ops, store, mem, loading, effTok, timers,
                   refreshTimerRef, onAuthFailure, isRefreshing, failedQueue,
                   rf, req, si, tc, srv, hist>>

(* ------------------------------- Next --------------------------------- *)
Next ==
    \/ \E k \in Keys : Load(k)
    \/ Tick
    \/ \E r \in AppReq, url \in AppUrls : AppStart(r, url)
    \/ \E r \in AppReq : AppReturn(r)
    \/ \E r \in Req : RIAfterRead(r)
    \/ \E r \in Req : RespondOk(r)
    \/ \E r \in Req, err \in Responses : RespondError(r, err)
    \/ \E r \in Req : RSAfterClear(r)
    \/ RefreshAfterRead
    \/ RefreshFails
    \/ RefreshSucceeds
    \/ RefreshAfterWrite
    \/ RunEffect
    \/ Unmount
    \/ \E t \in timers : TimerFire(t)
    \/ TCAfterRead
    \/ TCAfterPost
    \/ \E signUp \in BOOLEAN, email \in Emails, password \in Passwords :
          SignInStart(signUp, email, password)
    \/ SignUpAfterRegister
    \/ SignInAfterLogin
    \/ SignInAfterMe
    \/ SignInReturn
    \/ SignOutStart
    \/ SignOutAfterRead
    \/ SignOutAfterLogout
    \/ SignOutAfterClear
    \/ SignOutReturn

Spec == Init /\ [][Next]_vars

\* The refresh round-trip and the storage operations complete, and the event
\* loop runs every continuation that is ready.
Continuations ==
    \/ \E r \in AppReq : AppReturn(r)
    \/ SignUpAfterRegister
    \/ SignInAfterLogin
    \/ SignInAfterMe
    \/ SignInReturn
    \/ SignOutAfterLogout
    \/ SignOutReturn
    \/ TCAfterPost

SpecLive ==
    /\ Spec
    /\ WF_vars(Continuations)
    /\ WF_vars(RefreshAfterRead)
    /\ WF_vars(RefreshFails \/ RefreshSucceeds)
    /\ WF_vars(RefreshAfterWrite)

(* --------------------- the JWT utilities on their own ------------------ *)
\* The inputs of one call of isTokenExpired and getTokenExpirationTime: a
\* token string, a buffer in seconds and the value of Date.now().
JwtSegments == 1..4
JwtExps == {-30, 0, 30, 90, 120, 180}
JwtBuffers == {0, 60, 120}
JwtTimes == {0, 30000, 60000, 120000}

JwtTokens ==
    {[segments |-> n, payload |-> p, exp |-> e] :
        n \in JwtSegments, p \in PayloadKinds \ {"exp"}, e \in {0}}
    \cup {[segments |-> n, payload |-> "exp", exp |-> e] :
        n \in JwtSegments, e \in JwtExps}
    \cup {NoTok}

InitJwt ==
    /\ now \in JwtTimes
    /\ ticks = 0
    /\ ops = 0
    /\ store = EmptyStore
    /\ srv = [nextId |-> 0, valid |-> {}]
    /\ mem = EmptyStore
    /\ loading = [k \in Keys |-> TRUE]
    /\ effTok = NoTok
    /\ timers = {}
    /\ refreshTimerRef = 0
    /\ onAuthFailure = "facade"
    /\ isRefreshing = FALSE
    /\ failedQueue = <<>>
    /\ rf = IdleRf
    /\ req = [r \in Req |-> IdleReq]
    /\ si = IdleSi
    /\ so = [pc |-> "idle", rt |-> NoRT, logout |-> "none"]
    /\ tc = [pc |-> "idle", rt |-> NoRT]
    /\ hist = InitHist
    /\ \E token \in JwtTokens, bufferSeconds \in JwtBuffers :
          jwt = [NoJwt EXCEPT !.pc = "input", !.token = token,
                              !.bufferSeconds = bufferSeconds]

JwtFrame ==
    UNCHANGED <<now, ticks, ops, store, mem, loading, effTok, timers,
                refreshTimerRef, onAuthFailure, isRefreshing, failedQueue,
                rf, req, si, so, tc, srv, hist>>

\* isTokenExpired(token, bufferSeconds) is called
CallIsTokenExpired ==
    /\ jwt.pc = "input"
    /\ jwt' = [jwt EXCEPT
                 !.pc = "checked",
                 !.raised = decodeJWT(jwt.token).thrown,
                 !.expired = isTokenExpired(jwt.token, jwt.bufferSeconds, now)]
    /\ JwtFrame

\* getTokenExpirationTime(token) is called
CallGetTokenExpirationTime ==
    /\ jwt.pc = "checked"
    /\ jwt' = [jwt EXCEPT
                 !.pc = "done",
                 !.raised = @ \/ decodeJWT(jwt.token).thrown,
                 !.remaining = getTokenExpirationTime(jwt.token, now)]
    /\ JwtFrame

NextJwt ==
    \/ CallIsTokenExpired
    \/ CallGetTokenExpirationTime

SpecJwt == InitJwt /\ [][NextJwt]_vars

(* ============================ properties ============================== *)
\* the callers of handleTokenRefresh whose promise is pending
Callers ==
    {failedQueue[i] : i \in 1..Len(failedQueue)}
        \cup (IF rf.owner # 0 THEN {rf.owner} ELSE {})

\* POST /auth/refresh requests on the wire, whoever sent them
RefreshPostsInFlight ==
    Cardinality({r \in Req : req[r].pc = "sent" /\ req[r].url = URL_REFRESH})
        + (IF rf.pc = "inflight" THEN 1 ELSE 0)

\* request r leaves the request interceptor in this step
Leaves(r) ==
    req[r].pc # "sent" /\ req'[r].pc = "sent"

\* nothing is running: no api call, no refresh, no facade call, no callback
AllFinished ==
    /\ \A r \in Req : req[r].pc = "idle"
    /\ rf.pc = "idle"
    /\ si.pc = "idle"
    /\ so.pc = "idle"
    /\ tc.pc = "idle"

(* ------------------------------- C1 ----------------------------------- *)
C1_OnePost ==
    /\ hist.rfPosts <= 1
    /\ rf.pc \in {"inflight", "write"} => hist.rfPosts = 1

C1_SameValue ==
    (isRefreshing /\ ~isRefreshing') =>
        \E v \in {NoTok, rf.data.a} : \A r \in Callers : req'[r].got = v

\* C1: however many interceptor calls invoke handleTokenRefresh while a
\* refresh is running, one POST /auth/refresh is made for all of them, and
\* when the refresh ends every one of them resumes with the same value.
C1_MutualExclusion ==
    []C1_OnePost /\ [][C1_SameValue]_vars

\* two calls have resumed with the token of the same refresh
C1_Witness ==
    \E r1, r2 \in Req :
        /\ r1 # r2
        /\ req[r1].got # NoTok
        /\ req[r1].got = req[r2].got
        /\ ~isRefreshing

(* ------------------------------- C2 ----------------------------------- *)
\* C2: at any instant at most one POST /auth/refresh is in flight in the
\* process, the one the proactive timer sends included.
C2_SingleRefreshInFlight ==
    RefreshPostsInFlight <= 1

(* ------------------------------- C3 ----------------------------------- *)
\* C3: once a refresh carrying refresh token R has succeeded, no POST
\* /auth/refresh sent afterwards carries R.
C3_RotatedNeverResent ==
    ~hist.staleSend

(* ------------------------------- C4 ----------------------------------- *)
C4_ReissuedOnce ==
    \A r \in Req :
        /\ req[r].sends <= 2
        /\ req[r].pc = "sent" /\ req[r].newTok # NoTok => req[r].sends = 2

C4_NewBearer ==
    \A r \in Req :
        req[r].pc = "sent" /\ req[r].newTok # NoTok =>
            req[r].hdr = req[r].newTok

C4_SecondOutcomeIsFinal ==
    \A r \in Req :
        (req[r].pc = "sent" /\ req[r].retry /\ req'[r].pc # "sent") =>
            /\ req'[r].pc = "done"
            /\ req'[r].sends = req[r].sends
            /\ UNCHANGED <<store, mem, isRefreshing, failedQueue, rf>>

\* C4: a call answered 401 whose refresh yields a credential is issued again
\* exactly once, carrying that credential as its bearer header; whatever the
\* second attempt yields is what the caller gets; a second 401 starts no
\* refresh, causes no further attempt and leaves the session in place.
C4_SingleRetry ==
    [](C4_ReissuedOnce /\ C4_NewBearer) /\ [][C4_SecondOutcomeIsFinal]_vars

(* ------------------------------- C5 ----------------------------------- *)
C5_ClearIssued ==
    \A r \in Req :
        (req[r].pc = "rs_wait" /\ req'[r].pc # "rs_wait"
            /\ req'[r].got = NoTok) =>
            /\ req'[r].pc = "rs_clear"
            /\ req'[r].sends = req[r].sends
            /\ store' = EmptyStore

C5_ThenRejected ==
    \A r \in Req :
        (req[r].pc = "rs_clear" /\ req'[r].pc # "rs_clear") =>
            /\ req'[r].pc = "done"
            /\ req'[r].result = "401"
            /\ req'[r].fails = 1
            /\ req'[r].sends = 1
            /\ store' \in {store, EmptyStore}

C5_AtReturn ==
    \A r \in Req :
        (req[r].pc = "done" /\ req[r].retry /\ req[r].sends = 1) =>
            /\ req[r].result = "401"
            /\ req[r].fails = 1

\* C5: when a call not yet retried is answered 401 and the refresh yields
\* null, the three persisted keys are cleared, the registered callback runs
\* exactly once for the call, the request is not sent again and the caller
\* receives the 401.
C5_RefreshFailed ==
    []C5_AtReturn /\ [][C5_ClearIssued /\ C5_ThenRejected]_vars

\* a call ends with its 401 after the refresh gave nothing
C5_Witness ==
    \E r \in Req :
        /\ req[r].pc = "done"
        /\ req[r].retry
        /\ req[r].sends = 1
        /\ req[r].fails = 1
        /\ req[r].result = "401"

(* ------------------------------- C6 ----------------------------------- *)
\* C6: a request to /auth/login, /auth/register, /auth/refresh or /health
\* passes the request interceptor as it came: the stored access token is not
\* read, no refresh is started or joined, and the interceptor puts no
\* Authorization header on it (the header it is sent with is the one the
\* response interceptor gave it for a re-issue, none otherwise).
C6_PublicUntouched ==
    \A r \in Req :
        req[r].url \in PUBLIC_ENDPOINTS =>
            /\ req[r].pc \notin {"ri_read", "ri_wait"}
            /\ req[r].tok = NoTok
            /\ req[r].pc = "sent" => req[r].hdr = req[r].newTok

\* /health is on the wire without a header while the stored credential is
\* about to expire
C6_Witness ==
    /\ store.access # NoTok
    /\ \E r \in Req :
          /\ req[r].url = URL_HEALTH
          /\ req[r].pc = "sent"
          /\ req[r].hdr = NoTok
          /\ needsRefresh(store.access)

(* ------------------------------- C7 ----------------------------------- *)
\* C7: a 401 answered by any of the four allow-listed endpoints, /health
\* included, is handed to the caller as it is: no retry, no refresh, no
\* clearing of the session, no callback.
C7_Public401NotHandled ==
    \A r \in Req :
        req[r].url \in PUBLIC_ENDPOINTS =>
            /\ ~req[r].retry
            /\ req[r].pc \notin {"rs_wait", "rs_clear"}
            /\ req[r].fails = 0

(* ------------------------------- C8 ----------------------------------- *)
\* C8: a request to a path that is not one of the four allow-listed paths
\* leaves the request interceptor with the bearer credential whenever one is
\* available after the expiry check, also when its path merely contains an
\* allow-listed path.
C8_ProtectedStep ==
    \A r \in Req :
        (Leaves(r) /\ req'[r].url \notin PUBLIC_ENDPOINTS) =>
            /\ (req[r].pc = "ri_read" /\ req[r].tok # NoTok)
                  => req'[r].hdr = req[r].tok
            /\ (req[r].pc = "ri_wait" /\ req'[r].got # NoTok)
                  => req'[r].hdr = req'[r].got
            /\ (req[r].pc = "idle" /\ store.access # NoTok
                    /\ ~needsRefresh(store.access))
                  => req'[r].hdr = store.access

C8_ProtectedCarryCredential ==
    [][C8_ProtectedStep]_vars

(* ------------------------------- C9 ----------------------------------- *)
C9_AtReturn ==
    so.pc = "returned" => store = EmptyStore /\ mem = EmptyStore

C9_Steps ==
    /\ (so.pc = "idle" /\ so'.pc # "idle") =>
            timers' = {} /\ refreshTimerRef' = 0
    /\ (so.pc = "logout" /\ so'.pc # "logout") =>
            so'.pc = "clear" /\ store' = EmptyStore
    /\ (so.pc = "clear" /\ so'.pc # "clear") => so'.pc = "returned"

\* C9: signOut runs to its end whatever the backend logout call yields: the
\* refresh timer is cancelled before anything else, a failed logout is
\* absorbed, and when signOut returns the three persisted keys are absent and
\* the session held in memory is null.
C9_SignOutCompletes ==
    []C9_AtReturn /\ [][C9_Steps]_vars

\* signOut returns although the logout call failed
C9_Witness ==
    /\ so.pc = "returned"
    /\ so.logout \in {"401", "500", "net"}

(* ------------------------------- C10 ---------------------------------- *)
\* C10: after signOut has returned and everything that was in flight has
\* ended, the persisted access and refresh tokens are absent and no session
\* is held in memory, until signIn or signUp is called again.
C10_NoWriteBackAfterSignOut ==
    (hist.signedOut /\ AllFinished) =>
        /\ store.access = NoTok
        /\ store.refresh = NoRT
        /\ mem = EmptyStore

(* ------------------------------- C11 ---------------------------------- *)
\* the running refresh ends in this step without a new pair
RefreshEndsFailed ==
    isRefreshing /\ ~isRefreshing' /\ rf.pc # "write"

\* C11: when the refresh fails (no refresh token stored, transport error,
\* rejection by the backend), the caller that started it and every queued
\* caller resume with null, none of them with an exception, and the
\* coordinator changes neither storage nor the session in memory: storage
\* changes in that step only through the clearAuthStorage() of a response
\* interceptor that resumed.
C11_FailedRefreshIsNull ==
    [][RefreshEndsFailed =>
          /\ \A r \in Callers :
                /\ req'[r].got = NoTok
                /\ req[r].pc = "ri_wait" => req'[r].pc = "sent"
                /\ req[r].pc = "rs_wait" => req'[r].pc = "rs_clear"
          /\ mem' = mem
          /\ store' = IF \E r \in Callers : req[r].pc = "rs_wait"
                      THEN EmptyStore
                      ELSE store]_vars

\* a request interceptor has resumed with null and the stored session is
\* what it was
C11_Witness ==
    \E r \in Req :
        /\ req[r].pc = "sent"
        /\ req[r].old # NoTok
        /\ req[r].got = NoTok
        /\ store.access = req[r].old
        /\ store.refresh # NoRT
        /\ ~isRefreshing

(* ------------------------------- C12 ---------------------------------- *)
\* the token is within 60 s of its expiry, or has no usable exp
NearExpiry(token) ==
    /\ token # NoTok
    /\ token.exp = 0 \/ now >= token.exp * 1000 - 60000

C12_SentAfterRefresh ==
    \A r \in Req :
        (req[r].pc = "sent" /\ req[r].old # NoTok) =>
            /\ req[r].hdr = req[r].got
            /\ req[r].hdr # req[r].old

C12_Awaits ==
    \A r \in Req :
        /\ (req[r].pc = "ri_read" /\ NearExpiry(req[r].tok)
                /\ req'[r].pc # "ri_read") =>
              /\ req'[r].pc = "ri_wait"
              /\ req'[r].sends = req[r].sends
        /\ (req[r].pc = "ri_wait" /\ req'[r].pc # "ri_wait") =>
              /\ req'[r].pc = "sent"
              /\ req'[r].fails = req[r].fails
              /\ mem' = mem
              /\ (\A q \in Callers : req[q].pc = "ri_wait") => store' = store

C12_SentWithResult ==
    \A r \in Req :
        (req[r].pc = "sent" /\ req[r].old # NoTok) =>
            req[r].hdr = IF req[r].got # NoTok THEN req[r].got
                         ELSE req[r].newTok

MsUntilExpiry(token, at) ==
    IF token.exp = 0 \/ token.exp * 1000 <= at
    THEN 0
    ELSE token.exp * 1000 - at

C13_Delay ==
    \A t \in timers :
        LET delay == t.due - t.at
            wanted == MsUntilExpiry(t.tok, t.at) - 60000
        IN  /\ delay = IF wanted > 10000 THEN wanted ELSE 10000
            /\ delay >= 10000
            /\ t.at >= hist.lastFire

C13_FiringsApart ==
    (tc.pc = "idle" /\ tc'.pc = "read" /\ hist.lastFire # -1) =>
        now - hist.lastFire >= 10000

\* C13: a timer armed by scheduleTokenRefresh for a token with t ms until its
\* expiry is due max(t - 60000, 10000) ms later, so never less than 10000 ms
\* later, also for an expired token (t = 0); a pending timer was armed after
\* the last firing, so two firings are at least 10 s apart.
C13_DelayFormula ==
    []C13_Delay /\ [][C13_FiringsApart]_vars

\* a timer is pending that was armed for a token already expired then, 10 s
\* ahead
C13_Witness ==
    \E t \in timers :
        /\ t.tok.exp * 1000 <= t.at
        /\ t.due = t.at + 10000

(* ------------------------------- C14 ---------------------------------- *)
\* C14: at most one proactive-refresh timer is pending, whatever signIn,
\* signUp, the access-token effect, firings and re-arms have done before; the
\* pending timer is the one refreshTimerRef holds.
C14_SingleTimer ==
    /\ Cardinality(timers) <= 1
    /\ \A t \in timers : t.id = refreshTimerRef

\* a timer is pending that replaced an earlier one: it was armed by signIn
\* after the effect had armed one for the same token
C14_Witness ==
    /\ si.pc = "returned"
    /\ si.res = "ok"
    /\ effTok = mem.access
    /\ effTok # NoTok
    /\ \E t \in timers :
          /\ t.tok = mem.access
          /\ ~isTokenExpired(t.tok, DefaultBufferSeconds, t.at)

(* ------------------------------- C15 ---------------------------------- *)
\* C15: once AuthProvider is unmounted, and once signOut or the
\* session-invalidated callback has cleared the access token and the effects
\* have run, no timer is pending, until signIn or signUp is called again;
\* a timer callback that was running at that time arms none either.
C15_NoTimerAfterClear ==
    /\ ~mounted => timers = {}
    /\ (hist.cleared /\ EffectsFlushed) => timers = {}

(* ------------------------------- C16 ---------------------------------- *)
\* C16: whenever a new access token that is not expired has become the
\* current one (through signIn, signUp, the timer's refresh or a refresh of
\* the interceptors) and the effects have run, a timer armed for that token
\* is pending.  A timer armed for a token that is not expired is due after
\* the token leaves the 60 s buffer, so it cannot have fired yet.
C16_TimerForCurrentToken ==
    (/\ mounted
     /\ ~isLoading
     /\ AllFinished
     /\ EffectsFlushed
     /\ store.access # NoTok
     /\ ~isTokenExpired(store.access, DefaultBufferSeconds, now))
        => \E t \in timers : t.tok = store.access

(* ------------------------------- C17 ---------------------------------- *)
C17_Installed ==
    (tc.pc = "post" /\ tc'.pc # "post" /\ req[TM].result = "ok") =>
        /\ store'.access = req[TM].data.a
        /\ store'.refresh = req[TM].data.r
        /\ mem'.access = req[TM].data.a
        /\ mem'.refresh = req[TM].data.r

C17_Rearmed ==
    (/\ mounted
     /\ so.pc = "idle"
     /\ hist.timerTok # 0
     /\ mem.access.id = hist.timerTok
     /\ EffectsFlushed)
        => \E t \in timers : t.tok = mem.access

\* C17: when the refresh made by the timer callback succeeds, the new access
\* and refresh tokens are written to storage and set in memory, and once the
\* access-token effect has run for the new token a timer armed for it is
\* pending (until it fires or the session ends), whatever the lifetime of
\* the new token, 60 s or less included.
C17_TimerRefreshRearms ==
    []C17_Rearmed /\ [][C17_Installed]_vars

(* ------------------------------- C18 ---------------------------------- *)
C18_NotHandled ==
    /\ req[TM].pc \notin {"rs_wait", "rs_clear"}
    /\ ~req[TM].retry
    /\ req[TM].fails = 0

C18_Frame ==
    /\ (req[TM].pc = "sent" /\ req'[TM].pc # "sent"
            /\ req'[TM].result # "ok") =>
          /\ req'[TM].pc = "done"
          /\ UNCHANGED <<store, mem, timers, isRefreshing, failedQueue, rf>>
    /\ (tc.pc = "post" /\ tc'.pc # "post" /\ req[TM].result # "ok") =>
          /\ tc'.pc = "idle"
          /\ UNCHANGED <<store, mem, timers, refreshTimerRef>>
          /\ hist'.cleared = hist.cleared

\* C18: when the POST /auth/refresh of the timer callback fails (transport
\* error or rejection), storage and the session in memory stay as they are,
\* the session-invalidated callback is not invoked, no refresh or retry is
\* started for it, and the callback ends normally.
C18_TimerFailureLeavesSession ==
    []C18_NotHandled /\ [][C18_Frame]_vars

\* the timer's refresh has been answered 401 and has come back to the
\* callback with the session still stored
C18_Witness ==
    /\ tc.pc = "post"
    /\ req[TM].pc = "done"
    /\ req[TM].result = "401"
    /\ store.access # NoTok
    /\ mem.access = store.access

(* ------------------------------- C19 ---------------------------------- *)
\* C19: when the timer callback has read no refresh token from storage it
\* ends there: no request is created or sent, storage and the session in
\* memory stay as they are, and no timer is armed.
C19_NoTokenNoRefresh ==
    [][(tc.pc = "read" /\ tc.rt = NoRT /\ tc' # tc) =>
          /\ tc'.pc = "idle"
          /\ UNCHANGED <<req, store, mem, loading, timers, refreshTimerRef,
                         isRefreshing, failedQueue, rf, srv>>]_vars

\* the timer has fired with nothing in storage: the callback has read null
C19_Witness ==
    /\ tc.pc = "read"
    /\ tc.rt = NoRT
    /\ store = EmptyStore
    /\ hist.lastFire = now

(* ------------------------------- C20 ---------------------------------- *)
C20_Resolves ==
    (si.pc = "me" /\ si'.pc # "me") =>
        si'.pc = "returned" /\ si'.res = "ok"

C20_AtReturn ==
    (si.pc = "returned" /\ si.res = "ok" /\ si.me # "ok") =>
        /\ store.access = si.a
        /\ store.refresh = si.a.id
        /\ mem.access = si.a
        /\ mem.refresh = si.a.id
        /\ store.user = NoUser
        /\ mem.user = NoUser
        /\ \E t \in timers : t.tok = si.a

\* C20: signIn resolves also when GET /users/me fails; when it does, the pair
\* the login returned is in storage and in memory, no profile is stored or
\* held in memory, and a timer armed for the new access token is pending.
C20_SignInWithoutProfile ==
    []C20_AtReturn /\ [][C20_Resolves]_vars

(* ------------------------------- C21 ---------------------------------- *)
\* what signIn must leave alone: storage, the in-memory session, the timer
\* and the refresh coordinator
C21_Frame ==
    UNCHANGED <<store, mem, loading, effTok, timers, refreshTimerRef,
                onAuthFailure, isRefreshing, failedQueue, rf>>

\* the call of signIn up to the login request being on the wire
C21_Call ==
    (si.pc = "idle" /\ si'.pc = "login") =>
        /\ req'[SI].pc = "sent"
        /\ req'[SI].url = URL_LOGIN
        /\ C21_Frame

\* the login request is answered with an error or fails in transport
C21_Rejected ==
    (req[SI].pc = "sent" /\ req[SI].url = URL_LOGIN
        /\ req'[SI].pc # "sent" /\ req'[SI].result # "ok") =>
        /\ req'[SI].pc = "done"
        /\ req'[SI].result \in {"401", "500", "net"}
        /\ ~req'[SI].retry
        /\ req'[SI].sends = 1
        /\ req'[SI].fails = 0
        /\ C21_Frame

\* signIn resumes with the error of the login
C21_Throws ==
    (si.pc = "login" /\ si'.pc # "login" /\ req[SI].result # "ok") =>
        /\ si'.pc = "returned"
        /\ si'.res = "error"
        /\ si'.thrown = URL_LOGIN
        /\ req'[SI] = IdleReq
        /\ C21_Frame

\* C21: when POST /auth/login is rejected or fails in transport, signIn
\* throws the error to its caller, and no step of the call changes storage,
\* the in-memory session, or the timer, or invokes the session-invalidated
\* callback.
C21_FailedLoginChangesNothing ==
    [][C21_Call /\ C21_Rejected /\ C21_Throws]_vars

\* signIn has thrown the error of the login while a timer it could have
\* touched is pending
C21_Witness ==
    /\ si.pc = "returned"
    /\ si.res = "error"
    /\ si.thrown = URL_LOGIN
    /\ timers # {}

(* ------------------------------- C22 ---------------------------------- *)
\* signUp starts with the registration request
C22_RegistersFirst ==
    (si.pc = "idle" /\ si'.pc = "register") =>
        /\ req'[SI].pc = "sent"
        /\ req'[SI].url = URL_REGISTER
        /\ req'[SI].cred = si'.data

\* after the registration succeeded the login request carries the arguments
\* of signUp
C22_ThenSignsIn ==
    (si.pc = "register" /\ si'.pc # "register" /\ req[SI].result = "ok") =>
        /\ si'.pc = "login"
        /\ req'[SI].pc = "sent"
        /\ req'[SI].url = URL_LOGIN
        /\ req'[SI].cred.email = si.data.email
        /\ req'[SI].cred.password = si.data.password

\* a failed registration is thrown; no login request, no change of state
C22_RegisterFails ==
    (si.pc = "register" /\ si'.pc # "register" /\ req[SI].result # "ok") =>
        /\ si'.pc = "returned"
        /\ si'.res = "error"
        /\ si'.thrown = URL_REGISTER
        /\ req'[SI] = IdleReq
        /\ UNCHANGED <<store, mem, loading, timers, refreshTimerRef>>

C23_CallbackRuns(r) ==
    /\ req[r].pc = "rs_clear"
    /\ req'[r].pc = "done"
    /\ onAuthFailure = "facade"

\* a POST /auth/logout is put on the wire in this step
C23_LogoutSent ==
    \E q \in Req : Leaves(q) /\ req'[q].url = URL_LOGOUT

C23_Callback ==
    \A r \in Req :
        C23_CallbackRuns(r) =>
            /\ \A t \in timers' : t.id # refreshTimerRef
            /\ refreshTimerRef' = 0
            /\ mem' = EmptyStore
            /\ store' = EmptyStore
            /\ ~C23_LogoutSent
            /\ so' = so
            /\ \A q \in Req \ {r} : req'[q] = req[q]

\* C23: the session-invalidated callback the provider registers cancels the
\* pending timer, sets the in-memory access token, refresh token and profile
\* to null, leaves their storage keys absent and sends no POST /auth/logout.
C23_InvalidationIsLocal ==
    [][C23_Callback]_vars

\* the callback has run for a request while the effect's timer for the
\* session it ended was pending: the session is gone and so is the timer
C23_Witness ==
    /\ \E r \in Req : req[r].pc = "done" /\ req[r].fails = 1
    /\ mounted
    /\ effTok # NoTok
    /\ ~isTokenExpired(effTok, DefaultBufferSeconds, now)
    /\ mem = EmptyStore
    /\ store = EmptyStore
    /\ timers = {}
    /\ so.pc = "idle"

(* ------------------------------- C24 ---------------------------------- *)
\* the flag of a key is up exactly until the initial read of the key has
\* delivered, so isLoading is up exactly until all three have
C24_UntilLoaded ==
    /\ \A k \in Keys : loading[k] <=> k \notin hist.loaded
    /\ isLoading <=> hist.loaded # Keys

C24_StaysFalse ==
    ~isLoading => ~isLoading'

\* C24: isLoading is true from mount until the initial storage read of each
\* of the three keys has delivered its value, and once false it is never
\* true again, whatever signIn, signOut, refreshes and invalidations follow.
C24_LoadingOnce ==
    []C24_UntilLoaded /\ [][C24_StaysFalse]_vars

\* loading has ended, and the session that was loaded was then ended by
\* signOut or by the session-invalidated callback: every key is null again
C24_Witness ==
    /\ ~isLoading
    /\ hist.loaded = Keys
    /\ hist.cleared
    /\ mem = EmptyStore

(* ------------------------------- C25 ---------------------------------- *)
\* the token has three segments and a payload with a numeric exp
C25_Parsable(token) ==
    /\ token # NoTok
    /\ token.segments = 3
    /\ token.payload = "exp"

\* buffered remaining time, in ms
C25_Buffered(exp, bufferSeconds, currentTime) ==
    Max(exp * 1000 - currentTime - bufferSeconds * 1000, 0)

C25_Expired ==
    (jwt.pc \in {"checked", "done"} /\ C25_Parsable(jwt.token)) =>
        (jwt.expired <=>
            C25_Buffered(jwt.token.exp, jwt.bufferSeconds, now) = 0)

C25_Samples ==
    (jwt.pc \in {"checked", "done"} /\ C25_Parsable(jwt.token)
        /\ jwt.bufferSeconds = 60) =>
        /\ jwt.token.exp * 1000 = now + 30000 => jwt.expired
        /\ jwt.token.exp * 1000 = now + 120000 => ~jwt.expired

C25_Remaining ==
    (jwt.pc = "done" /\ C25_Parsable(jwt.token)) =>
        jwt.remaining = Max(jwt.token.exp * 1000 - now, 0)

\* C25: for a token with a parsable expiry exp (seconds), a time now and a
\* buffer b (seconds), isTokenExpired(token, b) is true exactly when
\* max(exp*1000 - now - b*1000, 0) = 0: true for an expiry 30 s ahead and
\* false for one 120 s ahead with b = 60; and getTokenExpirationTime(token)
\* is max(exp*1000 - now, 0).
C25_ExpiryArithmetic ==
    C25_Expired /\ C25_Samples /\ C25_Remaining

\* both functions were applied to a token that expires exactly bufferSeconds
\* from now
C25_Witness ==
    /\ jwt.pc = "done"
    /\ C25_Parsable(jwt.token)
    /\ jwt.bufferSeconds = 60
    /\ jwt.token.exp * 1000 - now = 60000
    /\ jwt.expired
    /\ jwt.remaining = 60000

(* ------------------------------- C26 ---------------------------------- *)
\* the token is not three segments, or its payload cannot be decoded
C26_Undecodable(token) ==
    \/ token.segments # 3
    \/ token.payload \in {"undecodable", "notjson", "null"}

\* the payload decodes and holds no expiry: no exp claim, or one that is not
\* a number
C26_NoExpiry(token) ==
    /\ token.segments = 3
    /\ token.payload \in {"noexp", "nonnumeric"}

C26_TreatedAsExpired ==
    (jwt.token # NoTok
        /\ (C26_Undecodable(jwt.token) \/ C26_NoExpiry(jwt.token))) =>
        /\ ~jwt.raised
        /\ jwt.pc \in {"checked", "done"} => jwt.expired
        /\ jwt.pc = "done" => jwt.remaining = 0

\* C26: for a token string that is not three dot-separated segments, whose
\* payload cannot be decoded, or that has no expiry, decodeJWT,
\* isTokenExpired and getTokenExpirationTime never raise, isTokenExpired is
\* true for every buffer and getTokenExpirationTime is 0.
C26_FailSoft ==
    C26_TreatedAsExpired

(* ------------------------------- C27 ---------------------------------- *)
\* request r receives an error that is not a 401 in this step
C27_Fails(r) ==
    /\ req[r].pc = "sent"
    /\ req'[r].pc # "sent"
    /\ req'[r].err \in {"500", "net"}

C27_Propagated ==
    \A r \in Req :
        C27_Fails(r) =>
            /\ req'[r].pc = "done"
            /\ req'[r].result = req'[r].err
            /\ req'[r].retry = req[r].retry
            /\ req'[r].sends = req[r].sends
            /\ req'[r].fails = req[r].fails
            /\ UNCHANGED <<store, mem, loading, timers, refreshTimerRef,
                           isRefreshing, failedQueue, rf, hist>>

\* C27: a transport error or an error response other than 401 on a call is
\* handed to the caller of that call; no refresh is started or joined, the
\* request is not issued again, no persisted key is cleared and the
\* session-invalidated callback is not invoked.
C27_OtherErrorsPropagate ==
    [][C27_Propagated]_vars

\* a protected call sent with the session's credential has ended with a
\* transport error, and the session is in place
C27_Witness ==
    \E r \in AppReq :
        /\ req[r].pc = "done"
        /\ req[r].err = "net"
        /\ ~isPublicEndpoint(req[r].url)
        /\ ~req[r].retry
        /\ store.access # NoTok
        /\ mem.access # NoTok
        /\ timers # {}

(* ------------------------------- C28 ---------------------------------- *)
\* the four allow-listed paths
C28_AllowListed(url) ==
    url \in PUBLIC_ENDPOINTS

\* request r, not yet retried, receives a 401 in this step
C28_Gets401(r) ==
    /\ req[r].pc = "sent"
    /\ req'[r].pc # "sent"
    /\ req'[r].err = "401"
    /\ ~req[r].retry

C28_Handled ==
    \A r \in Req :
        (C28_Gets401(r) /\ ~C28_AllowListed(req[r].url)) =>
            /\ req'[r].retry
            /\ req'[r].pc = "rs_wait"
            /\ isRefreshing'
            /\ \/ rf'.owner = r /\ ~isRefreshing
               \/ /\ isRefreshing
                  /\ failedQueue' = Append(failedQueue, r)
                  /\ rf' = rf

\* C28: every 401 received for a request not yet retried, to any path other
\* than the four allow-listed ones (/auth/logout and /users/me included),
\* marks the request as retried and invokes the refresh coordinator, which
\* starts a refresh or joins the one in flight.
C28_Every401Refreshes ==
    [][C28_Handled]_vars

(* ------------------------------- C29 ---------------------------------- *)
\* request r awaits handleTokenRefresh
C29_Waits(r) ==
    req[r].pc \in {"ri_wait", "rs_wait"}

\* every caller, initiator or queued, is eventually resolved
C29_Resolves ==
    \A r \in Req : C29_Waits(r) ~> ~C29_Waits(r)

\* the step that ends a refresh resolves every caller and leaves the
\* coordinator idle with an empty queue
C29_BackToIdle ==
    (rf.pc # "idle" /\ rf'.pc = "idle") =>
        /\ ~isRefreshing'
        /\ failedQueue' = <<>>
        /\ \A r \in Req : ~C29_Waits(r)'

\* outside a refresh nobody is queued or waiting; during one the requests
\* that wait are the initiator and the queued ones
C29_NoLateWaiter ==
    /\ isRefreshing <=> rf.pc # "idle"
    /\ ~isRefreshing => failedQueue = <<>>
    /\ {r \in Req : C29_Waits(r)} = Callers

\* C29: provided the refresh round-trip and the storage operations complete,
\* every caller of handleTokenRefresh, initiator or queued waiter, is
\* eventually resolved; whenever a refresh finishes the coordinator is idle
\* again with an empty queue, and no waiter is enqueued between the draining
\* of the queue and the return to idle.
C29_CoordinatorLive ==
    C29_Resolves /\ [][C29_BackToIdle]_vars /\ []C29_NoLateWaiter

\* the initiator and a queued waiter were resolved with the same token by a
\* refresh that has finished, and the coordinator is idle
C29_Witness ==
    /\ ~isRefreshing
    /\ rf.pc = "idle"
    /\ failedQueue = <<>>
    /\ \E r, q \in Req :
          /\ r # q
          /\ req[r].got # NoTok
          /\ req[q].got = req[r].got
          /\ req[r].pc = "sent"
          /\ req[q].pc = "sent"

(* ------------------------------- C30 ---------------------------------- *)
\* the refresh round-trip succeeds: both credentials of the response are
\* written while every caller still waits
C30_Written ==
    (rf.pc = "inflight" /\ rf'.pc = "write") =>
        /\ store'.access = rf'.data.a
        /\ store'.refresh = rf'.data.r
        /\ rf'.data.a # NoTok
        /\ rf'.data.r # NoRT
        /\ \A r \in Callers : req'[r] = req[r]

\* the callers are resumed after that, with the access token of the response,
\* which is the one in storage unless storage was cleared meanwhile
C30_Resumed ==
    (rf.pc = "write" /\ rf'.pc = "idle") =>
        /\ \A r \in Callers : req'[r].got = rf.data.a
        /\ store.access # NoTok => store.access = rf.data.a

\* no caller leaves its wait while the refresh has not returned
C30_NoEarlyResume ==
    \A r \in Req :
        (req[r].pc \in {"ri_wait", "rs_wait"} /\ rf'.pc # "idle") =>
            req'[r] = req[r]

\* C30: on a successful coordinator refresh the new access token and the new
\* refresh token of the response are both written to storage before the
\* initiator returns and before a queued waiter is resumed, and the value
\* every caller receives equals the access token then in storage, unless
\* storage was cleared concurrently.
C30_PersistBeforeResume ==
    [][C30_Written /\ C30_Resumed /\ C30_NoEarlyResume]_vars

(* ------------------------------- C31 ---------------------------------- *)
\* request r invokes the session-invalidated callback in this step
C31_Invokes(r) ==
    req[r].pc = "rs_clear" /\ req'[r].pc = "done"

\* the callback has not been invoked for the same failed refresh before
C31_FirstForRefresh ==
    \A r \in Req : C31_Invokes(r) => req[r].rid \notin hist.invalidated

\* the call is rejected with the 401 it had received
C31_Own401 ==
    \A r \in Req :
        C31_Invokes(r) =>
            /\ req[r].err = "401"
            /\ req'[r].result = "401"
            /\ req'[r].sends = 1

\* C31: when several protected calls are answered 401 and share one refresh
\* that yields null, the session-invalidated callback is invoked once for
\* that failed refresh, not once per waiting call, and each of the calls
\* receives its own 401.
C31_OneInvalidationPerRefresh ==
    [][C31_FirstForRefresh /\ C31_Own401]_vars

\* the part that is about the errors alone
C31_EachGetsOwn401 ==
    [][C31_Own401]_vars

(* ------------------------------- C32 ---------------------------------- *)
\* a credential is written to storage in this step
C32_CredentialWritten ==
    \/ store'.access # store.access /\ store'.access # NoTok
    \/ store'.refresh # store.refresh /\ store'.refresh # NoRT

\* refreshAccessToken stores the pair of its own POST /auth/refresh
C32_ByCoordinator ==
    /\ rf.pc = "inflight"
    /\ rf'.pc = "write"
    /\ store'.access = rf'.data.a
    /\ store'.refresh = rf'.data.r

\* signIn stores the pair of the login response
C32_BySignIn ==
    /\ si.pc = "login"
    /\ si'.pc = "me"
    /\ req[SI].url = URL_LOGIN
    /\ store'.access = req[SI].data.a
    /\ store'.refresh = req[SI].data.r

\* C32: a credential obtained from POST /auth/refresh is written to storage
\* by the refresh coordinator only; the facade writes credentials on sign-in
\* (and removes them on sign-out) and at no other time.
C32_CoordinatorSoleWriter ==
    [][C32_CredentialWritten => (C32_ByCoordinator \/ C32_BySignIn)]_vars

(* ------------------------------- C33 ---------------------------------- *)
\* no operation is in progress: the initial reads have delivered, no api
\* call, refresh, signIn, signOut or timer callback is running (the storage
\* writes a call issues are done when it has ended)
C33_NothingInProgress ==
    /\ AllFinished
    /\ ~isLoading
    /\ ~isRefreshing

\* C33: whenever no operation is in progress the session held in memory is
\* the persisted access token: both null, or the same token; also after a
\* refresh made by the request or the response interceptor.
C33_MemoryEqualsStorage ==
    C33_NothingInProgress => mem.access = store.access

(* ------------------------------- C34 ---------------------------------- *)
\* the backend issues an access token and a refresh token in one response
\* under the same number (NewPair); 0 is the absent credential
C34_IssuedTogether(st) ==
    st.access.id = st.refresh

\* C34: whenever no operation is in progress the persisted access token and
\* the persisted refresh token are both absent or come from the same login
\* or refresh response, whatever the interleaving of coordinator refresh,
\* proactive refresh, signIn, signOut and invalidation has been.
C34_PairCoherent ==
    C33_NothingInProgress => C34_IssuedTogether(store)

\* at rest after a refresh has run concurrently with a signOut or an
\* invalidation: storage holds the pair of one later response
C34_Witness ==
    /\ C33_NothingInProgress
    /\ hist.cleared
    /\ hist.rotated # {}
    /\ store.refresh > 1
    /\ C34_IssuedTogether(store)

(* ------------------------------- C35 ---------------------------------- *)
\* the profile request of signIn is put on the wire for the first time
C35_ProfileSent ==
    /\ si.pc = "me"
    /\ req[SI].url = URL_ME
    /\ req[SI].pc # "sent"
    /\ req'[SI].pc = "sent"
    /\ req'[SI].sends = 1

C35_Direct ==
    (C35_ProfileSent /\ req[SI].pc = "ri_read") =>
        /\ req[SI].tok = si.a
        /\ ~isTokenExpired(si.a, TOKEN_REFRESH_BUFFER_SECONDS, now)
        /\ req'[SI].hdr = si.a

\* within the buffer it has awaited a refresh: the request carries what the
\* refresh returned, or no header when that is null
C35_Refreshed ==
    (C35_ProfileSent /\ req[SI].pc = "ri_wait") =>
        /\ req[SI].old = si.a
        /\ isTokenExpired(si.a, TOKEN_REFRESH_BUFFER_SECONDS, now)
        /\ req'[SI].hdr = req'[SI].got

====
